---- MODULE Spec2Model ----
(***************************************************************************)
(* StatementSync.py: PDF bank statements attached to the records of a      *)
(* source database are read, turned into transaction rows by a completion  *)
(* model, uploaded to one database per respondent, and the source record   *)
(* is flagged Processed.  Every call to the document service, the          *)
(* completion service and the PDF host either succeeds or raises; the      *)
(* outcome is chosen nondeterministically at each call.                    *)
(***************************************************************************)
EXTENDS Integers, Sequences, FiniteSets, TLC

(* ------------------------------ bounds -------------------------------- *)
\* number of times main() is run, one after the other
MaxRuns == 2

(* ------------------------- program constants -------------------------- *)
\* line 79 as range(0, retries + 1): one attempt more than retries
retries_from_zero == 3 + 1

\* analyze_pdf_content(pdf_content, retries=3)
retries == 3

None == "<None>"
MAIN_DATABASE_ID == "main database ID"
TARGET_PAGE_ID == " target page ID"
OTHER_PAGE_ID == "another page ID"
UnknownRespondent == "Unknown Respondent"
AttachmentField == "upload your bank statement"

expected_headers == <<"Transaction Date", "Product Name", "Price", "Category">>

\* required_properties of ensure_database_properties: name -> type
required_properties ==
  [n \in {"Transaction Date", "Product Name", "Price", "Category", "Processed"} |->
     CASE n = "Transaction Date" -> "date"
       [] n = "Product Name" -> "title"
       [] n = "Price" -> "number"
       [] n = "Category" -> "rich_text"
       [] n = "Processed" -> "checkbox"]

\* the properties create_new_database gives a new database
new_database_properties ==
  [n \in {"Transaction Date", "Product Name", "Price", "Category", "Processed"} |->
     CASE n = "Transaction Date" -> "date"
       [] n = "Product Name" -> "title"
       [] n = "Price" -> "number"
       [] n = "Category" -> "rich_text"
       [] n = "Processed" -> "checkbox"]

Range(s) == {s[i] : i \in DOMAIN s}

\* f with g's entries added or overriding (dict.update)
Merge(f, g) ==
  [k \in (DOMAIN f) \cup (DOMAIN g) |-> IF k \in DOMAIN g THEN g[k] ELSE f[k]]

\* dict.get(key, default)
Get(d, key, default) == IF key \in DOMAIN d THEN d[key] ELSE default

\* Python truthiness of a str-or-None value
Truthy(v) == v # None /\ v # ""

(* ----------------------- string conversions --------------------------- *)
\* str.strip() on the cell values the model uses
Strip(s) ==
  CASE s = " " -> ""
    [] s = " Milk " -> "Milk"
    [] OTHER -> s

\* dateutil parser.parse(date_str).strftime("%Y-%m-%d"); "ValueError" and
\* "OverflowError" stand for the exception raised
ParseDate(s) ==
  CASE s = "2022-09-08" -> "2022-09-08"
    [] s = "09/08/2022" -> "2022-09-08"
    [] s = "Sept 8, 2022" -> "2022-09-08"
    [] s = "2022-09-09" -> "2022-09-09"
    [] s = "99999999999" -> "OverflowError"
    [] OTHER -> "ValueError"

\* float(price_str.replace(',', '').replace('$', '')), in cents;
\* -1 stands for ValueError
ParsePrice(s) ==
  CASE s = "100.00" -> 10000
    [] s = "200.50" -> 20050
    [] s = "$1,234.50" -> 123450
    [] OTHER -> -1

(* ------------------- completion responses and CSV --------------------- *)
\* An assistant message is a sequence of lines; a line is the sequence of
\* its comma-separated cells.  Fence is a line holding only the three
\* backquotes of a code fence, TaggedFence a fence line with a language
\* tag after the backquotes, Prose a line of explanation.
Fence == <<"[fence]">>
TaggedFence == <<"[fence]csv">>
Prose == <<"Here is the extracted data:">>

IsFenceLike(line) == line = Fence \/ line = TaggedFence

Min(S) == CHOOSE x \in S : \A y \in S : x <= y

\* assistant_message.find(fence + newline): the first bare fence line that
\* is followed by a newline; 0 when there is none (find returns -1)
csv_start(msg) ==
  LET S == {i \in 1..Len(msg) : msg[i] = Fence /\ i < Len(msg)}
  IN IF S = {} THEN 0 ELSE Min(S)

\* assistant_message.find(fence, csv_start + 4): the next line holding a
\* fence
csv_end(msg) ==
  LET S == {j \in 1..Len(msg) : j > csv_start(msg) /\ IsFenceLike(msg[j])}
  IN IF S = {} THEN 0 ELSE Min(S)

\* the candidate CSV payload: the first fenced block, else the whole message
csv_content(msg) ==
  IF csv_start(msg) # 0 /\ csv_end(msg) # 0
  THEN SubSeq(msg, csv_start(msg) + 1, csv_end(msg) - 1)
  ELSE msg

\* csv.DictReader skips empty lines
NonEmptyLines(lines) == SelectSeq(lines, LAMBDA l : l # <<>>)

\* reader.fieldnames: the first non-empty line; <<>> stands for the None
\* of a payload without one
fieldnames(lines) ==
  IF NonEmptyLines(lines) = <<>> THEN <<>> ELSE Head(NonEmptyLines(lines))

\* one DictReader row: dict(zip(fieldnames, cells)), restval None for the
\* missing cells; a repeated field name keeps its last cell
DictRow(names, cells) ==
  [k \in Range(names) |->
     LET i == CHOOSE j \in DOMAIN names :
                names[j] = k /\ \A m \in DOMAIN names : names[m] = k => m <= j
     IN IF i <= Len(cells) THEN cells[i] ELSE None]

\* data = [row for row in reader]
DictReader(lines) ==
  LET ls == NonEmptyLines(lines)
  IN IF ls = <<>> THEN <<>>
     ELSE [i \in 1..(Len(ls) - 1) |-> DictRow(Head(ls), ls[i + 1])]

GoodRow == <<"2022-09-08", "Milk", "100.00", "Groceries">>
GoodRow2 == <<"Sept 8, 2022", " Milk ", "$1,234.50", "Utilities">>
BlankNameRow == <<"09/08/2022", " ", "200.50", "Utilities">>
BadDateRow == <<"yesterday", "Milk", "100.00", "Groceries">>
BadPriceRow == <<"2022-09-09", "Milk", "abc", "Groceries">>
NoPriceRow == <<"2022-09-09", "Milk", "", "Utilities">>
ShortRow == <<"2022-09-09", "Milk">>

\* what the completion service may answer when the request does not raise
Messages ==
  { <<Fence, expected_headers, GoodRow, BlankNameRow, Fence>>,
    <<Prose, Fence, expected_headers, BadDateRow, BadPriceRow, Fence, Prose>>,
    <<expected_headers, NoPriceRow, ShortRow>>,
    <<expected_headers>>,
    <<TaggedFence, expected_headers, GoodRow, Fence>>,
    <<Prose, expected_headers, GoodRow>>,
    <<<<"Product Name", "Transaction Date", "Price", "Category">>, GoodRow>>,
    <<<<"Transaction Date", "Product Name", "Price">>, GoodRow>>,
    <<>>,
    <<expected_headers, GoodRow>>,
    <<<<"Transaction Date", "Product Name", "Price", "Category", "Notes">>,
      GoodRow>>,
    <<<<"Date", "Product Name", "Price", "Category">>, GoodRow>> }

\* lines 87-107 with the header compared as a set of names (line 104)
ParseAttemptAnyOrder(msg) ==
  LET lines == csv_content(msg)
      data == DictReader(lines)
  IN IF Range(fieldnames(lines)) # Range(expected_headers)
     THEN [raised |-> TRUE, data |-> <<>>]
     ELSE [raised |-> FALSE, data |-> data]

\* lines 87-107 without the header check of lines 104-105
ParseAttemptUnchecked(msg) ==
  [raised |-> FALSE, data |-> DictReader(csv_content(msg))]

\* lines 87-107 of one attempt on a message: the parsed rows when the
\* header is the expected one, "raise" otherwise
ParseAttempt(msg) ==
  LET lines == csv_content(msg)
      data == DictReader(lines)
  IN IF fieldnames(lines) # expected_headers
     THEN [raised |-> TRUE, data |-> <<>>]
     ELSE [raised |-> FALSE, data |-> data]

(* ----------------------- process_pdfs helpers ------------------------- *)
\* cleaned_item of process_pdfs: the four required fields of an item
cleaned_item(item) ==
  [k \in Range(expected_headers) |-> Get(item, k, "")]

\* all(cleaned_item.values())
AllValues(item) == \A k \in DOMAIN item : Truthy(item[k])

\* cleaned_data: the items whose four fields are all truthy
cleaned_data(extracted) ==
  LET cleaned == [i \in DOMAIN extracted |-> cleaned_item(extracted[i])]
  IN SelectSeq(cleaned, AllValues)

\* pdf_content.startswith("Error"); a text is its sequence of words
StartsWithError(text) == Len(text) > 0 /\ Head(text) = "Error"

\* what read_pdf returns when the download or the parse raises
ReadError == <<"Error", "reading", "PDF:">>

(* ------------------------------- state -------------------------------- *)
VARIABLES
  pages,             \* the records of the source database, in query order
  main_properties,   \* the property schema of the source database
  dbs,               \* the other databases of the workspace; the id is the index
  run,               \* number of the current run of main()
  entry,             \* the function that was called from outside
  environ,           \* the process environment: os.getenv of the two keys
  pc,                \* the statement the program is at
  pdf_entries,       \* process_pdfs: what get_pdf_entries returned
  gi,                \* process_pdfs: index of the respondent group
  pi,                \* process_pdfs: index of the PDF in the group
  existing_db_id,    \* process_pdfs: the group's database, NoDb for None
  pdf_content,       \* process_pdfs: what read_pdf returned
  attempt,           \* analyze_pdf_content: the attempt number
  requests,          \* analyze_pdf_content: the completion requests it has
                     \* issued for the PDF at hand
  assistant_message, \* analyze_pdf_content called by itself: the answer to
                     \* the last request, NoAnswer when the request raised
  extracted_data,    \* what analyze_pdf_content returned
  data,              \* upload_transactions_to_notion: its rows
  database_id,       \* upload_transactions_to_notion: its database
  ri,                \* upload_transactions_to_notion: index of the row
  uploaded_count,
  skipped_count,
  \* history, for stating the properties
  hist,              \* per PDF, what happened to it in this run
  writes,            \* the kinds of write requests issued in this run
  query_ok,          \* whether this run's query of the source database succeeded
  search_raised,     \* whether the current group's search raised
  resolved,          \* per respondent name, the database ids it was resolved to
  prev_fetch_failed, \* the PDFs whose read_pdf failed in the previous run
  uploaded_earlier,  \* the PDFs that had rows created in an earlier run
  rows_before,       \* rows of database_id when the upload call started
  complete_at_start  \* whether the source database had every required
                     \* property when this run started

vars == <<pages, main_properties, dbs, run, entry, environ, pc, pdf_entries,
          gi, pi,
          existing_db_id, pdf_content, attempt, requests, assistant_message,
          extracted_data, data,
          database_id, ri, uploaded_count, skipped_count, hist, writes,
          query_ok, search_raised, resolved, prev_fetch_failed,
          uploaded_earlier, rows_before, complete_at_start>>

NoDb == 0

\* the value of assistant_message when there is no answer
NoAnswer == <<<<"[no answer]">>>>

\* a record of the source database: the files of its "upload your bank
\* statement" property, each given by the text of the PDF (has_field FALSE:
\* the property is absent), its Processed checkbox ("absent" when the
\* property is not set) and the name under Respondent.created_by (None
\* when there is none)
Page(name, has_field, files, processed) ==
  [respondent |-> name, has_field |-> has_field, files |-> files,
   processed |-> processed]

\* the files of a page: file k of page p is <<p, k>>, which is also its url
pdf_files(p) == [k \in DOMAIN pages[p].files |-> <<p, k>>]

\* the text of the PDF behind a url
TextOf(pdf_url) == pages[pdf_url[1]].files[pdf_url[2]]

AllPdfs == UNION {Range(pdf_files(p)) : p \in DOMAIN pages}

\* line 279 with the checkbox ignored
CheckboxNever(page) == FALSE

\* line 279: properties.get("Processed", {}).get("checkbox", False)
Checkbox(page) == page.processed = "true"

\* lines 281-285: the respondent name of a page
respondent_name(page) ==
  IF page.respondent = None THEN UnknownRespondent ELSE page.respondent

\* lines 274-295: the entries one page contributes
PageEntries(p) ==
  IF ~pages[p].has_field THEN <<>>
  ELSE LET files == pdf_files(p)
           keep == SelectSeq(files, LAMBDA f : ~Checkbox(pages[p]))
       IN [i \in DOMAIN keep |->
             [page_id |-> p, pdf_file |-> keep[i], pdf_url |-> keep[i],
              respondent_name |-> respondent_name(pages[p])]]

RECURSIVE EntriesFrom(_)
EntriesFrom(p) ==
  IF p > Len(pages) THEN <<>> ELSE PageEntries(p) \o EntriesFrom(p + 1)

\* get_pdf_entries(MAIN_DATABASE_ID), given whether the query succeeded
get_pdf_entries(queryOk) == IF queryOk THEN EntriesFrom(1) ELSE <<>>

\* lines 417-422: the groups, in order of first appearance
respondent_pdfs(entries) ==
  LET first == {i \in DOMAIN entries :
                  \A j \in 1..(i - 1) :
                    entries[j].respondent_name # entries[i].respondent_name}
      nth(n) == CHOOSE i \in first : Cardinality({j \in first : j <= i}) = n
  IN [n \in 1..Cardinality(first) |->
        [respondent |-> entries[nth(n)].respondent_name,
         pdfs |-> SelectSeq(entries,
                    LAMBDA e : e.respondent_name = entries[nth(n)].respondent_name)]]

Groups == respondent_pdfs(pdf_entries)
CurGroup == Groups[gi]
CurPdf == CurGroup.pdfs[pi]

\* lines 150-153 without the test of line 152: every required property
PropertiesToAddAll(existing_properties) == required_properties

\* lines 150-153 with the test of line 152 on the type as well: the
\* required properties that are missing or have another type
PropertiesToAddOrRetype(existing_properties) ==
  [n \in {m \in DOMAIN required_properties :
            \/ m \notin DOMAIN existing_properties
            \/ existing_properties[m] # required_properties[m]} |->
     required_properties[n]]

\* lines 150-153: the required properties missing from a database
properties_to_add(existing_properties) ==
  [n \in (DOMAIN required_properties) \ (DOMAIN existing_properties) |->
     required_properties[n]]

\* lines 189-196: the databases of a search response that match
Matches(respondent, target_page_id) ==
  {i \in DOMAIN dbs : dbs[i].parent = target_page_id /\ dbs[i].title = respondent}

NewDatabase(respondent) ==
  [parent |-> TARGET_PAGE_ID, title |-> respondent,
   properties |-> new_database_properties, rows |-> <<>>]

\* line 16: whether the notion client was built with a token
Authorized == Truthy(environ["NOTION_API_KEY"])

\* the outcomes a request to the document service can have (TRUE: it
\* returns, FALSE: it raises): it may always fail, and the service
\* refuses a request that carries no token
CallOutcomes == IF Authorized THEN BOOLEAN ELSE {FALSE}

\* the outcomes a write request can have: the document service also
\* rejects a request that sets a property the database does not have
WriteOutcomes(properties, names) ==
  IF names \subseteq DOMAIN properties THEN CallOutcomes ELSE {FALSE}

Note(pdf, tag) == [hist EXCEPT ![pdf] = @ \cup {tag}]

(* --------------------------- initial states --------------------------- *)
Jane == "Jane Doe"
RespondentNames == {Jane, UnknownRespondent}

\* the properties a form gives the source database
FormProperties == (AttachmentField :> "files") @@ ("Respondent" :> "created_by")

\* texts of PDFs
Statement == <<"Statement", "2022">>
EmptyText == <<>>
ErrorCodes == <<"Error", "codes", "2022">>

\* a database titled with a respondent name that exists before the first
\* run, without the Processed property
OldDatabase(respondent) ==
  [NewDatabase(respondent) EXCEPT !.properties =
     [n \in {"Transaction Date", "Product Name", "Price", "Category"} |->
        new_database_properties[n]]]

\* the workspaces the runs start from: the records of the source
\* database, its properties, and the databases that exist already; a
\* record has no Processed checkbox where the database has no such property
Worlds ==
  { [pages |-> <<Page(Jane, TRUE, <<Statement, EmptyText>>, "absent")>>,
     main_properties |-> FormProperties,
     dbs |-> <<>>],
    [pages |-> <<Page(Jane, TRUE, <<ErrorCodes>>, "false"),
                 Page(None, TRUE, <<Statement>>, "false")>>,
     main_properties |-> Merge(FormProperties, "Processed" :> "checkbox"),
     dbs |-> <<OldDatabase(UnknownRespondent)>>],
    [pages |-> <<Page(Jane, TRUE, <<ErrorCodes>>, "false"),
                 Page(Jane, TRUE, <<Statement>>, "true")>>,
     main_properties |-> Merge(FormProperties, required_properties),
     dbs |-> <<[NewDatabase(Jane) EXCEPT !.parent = OTHER_PAGE_ID]>>],
    [pages |-> <<Page(None, FALSE, <<>>, "absent"),
                 Page(Jane, TRUE, <<Statement>>, "absent")>>,
     main_properties |-> Merge(FormProperties, "Price" :> "rich_text"),
     dbs |-> <<NewDatabase(Jane)>>],
    [pages |-> <<Page(Jane, TRUE, <<>>, "false"),
                 Page(Jane, TRUE, <<Statement>>, "true")>>,
     main_properties |-> Merge(FormProperties, "Processed" :> "checkbox"),
     dbs |-> <<>>] }

\* the environment with both keys set
Secrets == [NOTION_API_KEY |-> "secret", OPENAI_API_KEY |-> "secret"]

NoHist == [pdf \in AllPdfs |-> {}]

InitLocals ==
  /\ pdf_entries = <<>>
  /\ gi = 0
  /\ pi = 0
  /\ existing_db_id = NoDb
  /\ pdf_content = <<>>
  /\ attempt = 0
  /\ requests = 0
  /\ assistant_message = NoAnswer
  /\ extracted_data = <<>>
  /\ data = <<>>
  /\ database_id = NoDb
  /\ ri = 0
  /\ uploaded_count = 0
  /\ skipped_count = 0
  /\ rows_before = 0

InitHistory ==
  /\ hist = NoHist
  /\ writes = {}
  /\ query_ok = FALSE
  /\ search_raised = FALSE
  /\ resolved = [n \in RespondentNames |-> {}]
  /\ prev_fetch_failed = {}
  /\ uploaded_earlier = {}
  /\ complete_at_start = FALSE

Init ==
  /\ \E w \in Worlds :
       /\ pages = w.pages
       /\ main_properties = w.main_properties
       /\ dbs = w.dbs
  /\ run = 0
  /\ entry = "main"
  /\ environ = Secrets
  /\ pc = "idle"
  /\ InitLocals
  /\ InitHistory

(* ------------------------------ actions ------------------------------- *)
service == <<pages, main_properties, dbs>>
analyze_locals == <<attempt, requests, assistant_message, extracted_data>>
upload_locals == <<data, database_id, ri, uploaded_count, skipped_count, rows_before>>

\* lines 425, 434: go on with the next respondent group, or return
NextGroup ==
  /\ existing_db_id' = NoDb
  /\ search_raised' = FALSE
  /\ pi' = 0
  /\ pdf_content' = <<>>
  /\ IF gi < Len(Groups)
     THEN gi' = gi + 1 /\ pc' = "check_existing_database"
     ELSE gi' = 0 /\ pc' = "done"

\* lines 450, 459, 493 with break for continue: the rest of the group is
\* left out
NextPdfBreak == NextGroup

\* lines 439, 450, 459, 493: go on with the next PDF of the group
NextPdf ==
  IF pi < Len(CurGroup.pdfs)
  THEN /\ pi' = pi + 1
       /\ pc' = "read_pdf"
       /\ pdf_content' = <<>>
       /\ UNCHANGED <<gi, existing_db_id, search_raised>>
  ELSE NextGroup

\* lines 495-497: main() starts a run
main ==
  /\ entry = "main"
  /\ pc = "idle"
  /\ run < MaxRuns
  /\ run' = run + 1
  /\ pc' = "ensure_database_properties"
  /\ hist' = NoHist
  /\ writes' = {}
  /\ query_ok' = FALSE
  /\ prev_fetch_failed' = {pdf \in AllPdfs : "fetch_failed" \in hist[pdf]}
  /\ uploaded_earlier' = uploaded_earlier \cup
                           {pdf \in AllPdfs : "row_created" \in hist[pdf]}
  /\ complete_at_start' = (DOMAIN required_properties \subseteq DOMAIN main_properties)
  /\ UNCHANGED <<service, entry, environ, pdf_entries, gi, pi, existing_db_id,
                 pdf_content, analyze_locals, upload_locals, search_raised,
                 resolved>>

\* lines 117-166: ensure_database_properties(MAIN_DATABASE_ID)
ensure_database_properties ==
  /\ pc = "ensure_database_properties"
  /\ pc' = "process_pdfs"
  /\ \E retrieveOk, updateOk \in CallOutcomes :
       LET to_add == properties_to_add(main_properties)
       IN IF retrieveOk /\ DOMAIN to_add # {}
          THEN /\ writes' = writes \cup {"schema_update"}
               /\ main_properties' =
                    IF updateOk THEN Merge(main_properties, to_add)
                    ELSE main_properties
          ELSE UNCHANGED <<writes, main_properties>>
  /\ UNCHANGED <<pages, dbs, run, entry, environ, pdf_entries, gi, pi, existing_db_id,
                 pdf_content, analyze_locals, upload_locals, hist, query_ok,
                 search_raised, resolved, prev_fetch_failed, uploaded_earlier,
                 complete_at_start>>

\* lines 410-425: process_pdfs scans, returns when nothing was found, else
\* groups the entries and turns to the first group
process_pdfs ==
  /\ pc = "process_pdfs"
  /\ \E queryOk \in CallOutcomes :
       /\ query_ok' = queryOk
       /\ pdf_entries' = get_pdf_entries(queryOk)
  /\ hist' = [pdf \in AllPdfs |->
                IF \E i \in DOMAIN pdf_entries' : pdf_entries'[i].pdf_file = pdf
                THEN {"scanned"} ELSE {}]
  /\ IF pdf_entries' = <<>>
     THEN pc' = "done" /\ gi' = 0
     ELSE pc' = "check_existing_database" /\ gi' = 1
  /\ UNCHANGED <<service, run, entry, environ, pi, existing_db_id, pdf_content,
                 analyze_locals, upload_locals, writes, search_raised, resolved,
                 prev_fetch_failed, uploaded_earlier, complete_at_start>>

\* lines 168-202 and 428-436: check_existing_database(respondent,
\* TARGET_PAGE_ID); the search raises, or the first database of the
\* response that matches is returned (the service decides the order), or
\* None
check_existing_database ==
  /\ pc = "check_existing_database"
  /\ \E searchOk \in CallOutcomes :
       LET found == Matches(CurGroup.respondent, TARGET_PAGE_ID)
       IN IF searchOk /\ found # {}
          THEN \E id \in found :
                 /\ existing_db_id' = id
                 /\ resolved' = [resolved EXCEPT ![CurGroup.respondent] = @ \cup {id}]
                 /\ search_raised' = FALSE
                 /\ pi' = 1
                 /\ pc' = "read_pdf"
          ELSE /\ existing_db_id' = NoDb
               /\ search_raised' = ~searchOk
               /\ pc' = "create_new_database"
               /\ UNCHANGED <<resolved, pi>>
  /\ UNCHANGED <<service, run, entry, environ, pdf_entries, gi, pdf_content,
                 analyze_locals, upload_locals, hist, writes, query_ok,
                 prev_fetch_failed, uploaded_earlier, complete_at_start>>

\* lines 204-258 and 431-434 without the continue of line 434: when the
\* creation fails the PDFs of the group are worked on all the same
CreateWithoutContinue ==
  /\ pc = "create_new_database"
  /\ writes' = writes \cup {"database_create"}
  /\ \E createOk \in CallOutcomes :
       IF createOk
       THEN /\ dbs' = Append(dbs, NewDatabase(CurGroup.respondent))
            /\ existing_db_id' = Len(dbs) + 1
            /\ resolved' = [resolved EXCEPT
                              ![CurGroup.respondent] = @ \cup {Len(dbs) + 1}]
       ELSE /\ existing_db_id' = NoDb
            /\ UNCHANGED <<dbs, resolved>>
  /\ pi' = 1
  /\ pc' = "read_pdf"
  /\ UNCHANGED <<gi, pdf_content, search_raised>>
  /\ UNCHANGED <<pages, main_properties, run, entry, environ, pdf_entries,
                 analyze_locals, upload_locals, hist, query_ok,
                 prev_fetch_failed, uploaded_earlier, complete_at_start>>

\* lines 204-258 and 431-434: create_new_database(respondent); when it
\* fails the group is skipped
create_new_database ==
  /\ pc = "create_new_database"
  /\ writes' = writes \cup {"database_create"}
  /\ \E createOk \in CallOutcomes :
       IF createOk
       THEN /\ dbs' = Append(dbs, NewDatabase(CurGroup.respondent))
            /\ existing_db_id' = Len(dbs) + 1
            /\ resolved' = [resolved EXCEPT
                              ![CurGroup.respondent] = @ \cup {Len(dbs) + 1}]
            /\ pi' = 1
            /\ pc' = "read_pdf"
            /\ UNCHANGED <<gi, pdf_content, search_raised>>
       ELSE /\ NextGroup
            /\ UNCHANGED <<dbs, resolved>>
  /\ UNCHANGED <<pages, main_properties, run, entry, environ, pdf_entries,
                 analyze_locals, upload_locals, hist, query_ok,
                 prev_fetch_failed, uploaded_earlier, complete_at_start>>

\* lines 27-48 and 447-450: read_pdf(pdf_url) returns the text of the PDF,
\* or an error message when the download or the parse raises; a result
\* that starts with "Error" ends the work on this PDF
read_pdf ==
  /\ pc = "read_pdf"
  /\ \E readOk \in BOOLEAN :
       LET content == IF readOk THEN TextOf(CurPdf.pdf_url) ELSE ReadError
       IN /\ hist' = [hist EXCEPT ![CurPdf.pdf_file] =
                         @ \cup (IF readOk THEN {"read"} ELSE {"fetch_failed"})
                           \cup (IF StartsWithError(content) THEN {}
                                 ELSE {"fetched"})]
          /\ IF StartsWithError(content)
             THEN /\ NextPdf
                  /\ UNCHANGED <<attempt, requests, assistant_message>>
             ELSE /\ pdf_content' = content
                  /\ attempt' = 1
                  /\ requests' = 0
                  /\ assistant_message' = NoAnswer
                  /\ pc' = "analyze_pdf_content"
                  /\ UNCHANGED <<gi, pi, existing_db_id, search_raised>>
  /\ UNCHANGED <<service, run, entry, environ, pdf_entries, extracted_data,
                 upload_locals, writes, query_ok, resolved, prev_fetch_failed,
                 uploaded_earlier, complete_at_start>>

\* lines 79-115: one attempt of analyze_pdf_content: the request raises,
\* or the answer is parsed and its header checked; a failed attempt before
\* the last is followed by another, the last one by return []; the call
\* returns to process_pdfs, or to the caller when it was called by itself,
\* for which the answer is kept
analyze_pdf_content ==
  /\ pc = "analyze_pdf_content"
  /\ requests' = requests + 1
  /\ \E requestOk \in BOOLEAN, msg \in Messages :
       /\ assistant_message' =
            IF requestOk /\ entry # "main" THEN msg ELSE NoAnswer
       /\ LET res == IF requestOk THEN ParseAttempt(msg)
                     ELSE [raised |-> TRUE, data |-> <<>>]
              return == IF entry = "main" THEN "filter" ELSE "returned"
              note(tags) == IF entry = "main"
                            THEN [hist EXCEPT ![CurPdf.pdf_file] = @ \cup tags]
                            ELSE hist
          IN IF ~res.raised
             THEN /\ extracted_data' = res.data
                  /\ attempt' = 0
                  /\ pc' = return
                  /\ hist' = note({"requested"})
             ELSE IF attempt < retries
                  THEN /\ attempt' = attempt + 1
                       /\ hist' = note({"requested"})
                       /\ UNCHANGED <<extracted_data, pc>>
                  ELSE /\ extracted_data' = <<>>
                       /\ attempt' = 0
                       /\ pc' = return
                       /\ hist' = note({"requested", "exhausted"})
  /\ UNCHANGED <<service, run, entry, environ, pdf_entries, gi, pi,
                 existing_db_id, pdf_content, upload_locals, writes, query_ok,
                 search_raised, resolved, prev_fetch_failed, uploaded_earlier,
                 complete_at_start>>

\* line 457 with the mark of an empty result left in: a result without
\* rows is treated like any other
NoDataNever(extracted) == FALSE

\* line 457: if not extracted_data
NoData(extracted) == extracted = <<>>

\* lines 457-486: no extracted data ends the work on this PDF; else the
\* items are cleaned and the complete ones uploaded, if there are any
filter ==
  /\ pc = "filter"
  /\ extracted_data' = <<>>
  /\ requests' = 0
  /\ assistant_message' = NoAnswer
  /\ hist' = Note(CurPdf.pdf_file,
                  IF extracted_data = <<>> THEN "empty" ELSE "extracted")
  /\ IF NoData(extracted_data)
     THEN /\ NextPdf
          /\ UNCHANGED upload_locals
     ELSE /\ IF cleaned_data(extracted_data) # <<>>
             THEN /\ data' = cleaned_data(extracted_data)
                  /\ database_id' = existing_db_id
                  /\ ri' = 1
                  /\ uploaded_count' = 0
                  /\ skipped_count' = 0
                  /\ rows_before' = Len(dbs[existing_db_id].rows)
                  /\ pc' = "upload_transactions_to_notion"
             ELSE /\ pc' = "mark_pdf_as_processed"
                  /\ UNCHANGED upload_locals
          /\ UNCHANGED <<gi, pi, existing_db_id, search_raised, pdf_content>>
  /\ UNCHANGED <<service, run, entry, environ, pdf_entries, attempt, writes, query_ok,
                 resolved, prev_fetch_failed, uploaded_earlier,
                 complete_at_start>>

\* lines 340-391 with the fields tested before they are stripped
ValidateUntrimmed(row) ==
  LET date_str == Get(row, "Transaction Date", "")
      name == Get(row, "Product Name", "")
      price == Get(row, "Price", "")
      category == Get(row, "Category", "")
      skip(why) == [ok |-> FALSE, why |-> why, properties |-> <<>>]
  IN IF ~Truthy(date_str) THEN skip("missing date")
     ELSE IF ParseDate(date_str) = "ValueError" THEN skip("invalid date")
     ELSE IF ParseDate(date_str) = "OverflowError" THEN skip("exception")
     ELSE IF None \in {name, price, category} THEN skip("exception")
     ELSE IF name = "" \/ price = "" \/ category = "" THEN skip("missing field")
     ELSE IF ParsePrice(Strip(price)) = -1 THEN skip("invalid price")
     ELSE [ok |-> TRUE, why |-> "",
           properties |->
             [date |-> ParseDate(date_str), product_name |-> Strip(name),
              price |-> ParsePrice(Strip(price)), category |-> Strip(category)]]

\* lines 340-391: the checks on one row, in the code's order; the page
\* properties when the row passes, else the reason it is skipped
\* ("exception": the step raises something the inner handlers do not
\* catch, which the handler of line 399 counts as skipped)
Validate(row) ==
  LET date_str == Get(row, "Transaction Date", "")
      name == Get(row, "Product Name", "")
      price == Get(row, "Price", "")
      category == Get(row, "Category", "")
      skip(why) == [ok |-> FALSE, why |-> why, properties |-> <<>>]
  IN IF ~Truthy(date_str) THEN skip("missing date")
     ELSE IF ParseDate(date_str) = "ValueError" THEN skip("invalid date")
     ELSE IF ParseDate(date_str) = "OverflowError" THEN skip("exception")
     ELSE IF None \in {name, price, category} THEN skip("exception")
     ELSE IF Strip(name) = "" \/ Strip(price) = "" \/ Strip(category) = ""
          THEN skip("missing field")
     ELSE IF ParsePrice(Strip(price)) = -1 THEN skip("invalid price")
     ELSE [ok |-> TRUE, why |-> "",
           properties |->
             [date |-> ParseDate(date_str), product_name |-> Strip(name),
              price |-> ParsePrice(Strip(price)), category |-> Strip(category)]]

\* lines 337-401 with the count of line 401 left out: a row whose page
\* creation raises is not counted
UploadRowUncounted ==
  /\ pc = "upload_transactions_to_notion"
  /\ ri <= Len(data)
  /\ ri' = ri + 1
  /\ LET v == Validate(data[ri])
     IN IF ~v.ok
        THEN /\ skipped_count' = skipped_count + 1
             /\ UNCHANGED <<uploaded_count, dbs, writes, hist>>
        ELSE /\ writes' = writes \cup {"row_create"}
             /\ \E createOk \in WriteOutcomes(dbs[database_id].properties,
                                                 Range(expected_headers)) :
                  IF createOk
                  THEN /\ dbs' = [dbs EXCEPT ![database_id].rows =
                                    Append(@, v.properties)]
                       /\ uploaded_count' = uploaded_count + 1
                       /\ hist' = IF entry = "main"
                                  THEN Note(CurPdf.pdf_file, "row_created")
                                  ELSE hist
                       /\ UNCHANGED skipped_count
                  ELSE UNCHANGED <<skipped_count, uploaded_count, dbs, hist>>
  /\ UNCHANGED <<pages, main_properties, run, entry, environ, pc, pdf_entries, gi, pi,
                 existing_db_id, pdf_content, analyze_locals, data, database_id,
                 rows_before, query_ok, search_raised, resolved,
                 prev_fetch_failed, uploaded_earlier, complete_at_start>>

\* lines 337-401: upload_transactions_to_notion handles one row: a row that
\* fails a check or whose page creation raises is counted as skipped
upload_transactions_to_notion ==
  /\ pc = "upload_transactions_to_notion"
  /\ ri <= Len(data)
  /\ ri' = ri + 1
  /\ LET v == Validate(data[ri])
     IN IF ~v.ok
        THEN /\ skipped_count' = skipped_count + 1
             /\ UNCHANGED <<uploaded_count, dbs, writes, hist>>
        ELSE /\ writes' = writes \cup {"row_create"}
             /\ \E createOk \in WriteOutcomes(dbs[database_id].properties,
                                                 Range(expected_headers)) :
                  IF createOk
                  THEN /\ dbs' = [dbs EXCEPT ![database_id].rows =
                                    Append(@, v.properties)]
                       /\ uploaded_count' = uploaded_count + 1
                       /\ hist' = IF entry = "main"
                                  THEN Note(CurPdf.pdf_file, "row_created")
                                  ELSE hist
                       /\ UNCHANGED skipped_count
                  ELSE /\ skipped_count' = skipped_count + 1
                       /\ UNCHANGED <<uploaded_count, dbs, hist>>
  /\ UNCHANGED <<pages, main_properties, run, entry, environ, pc, pdf_entries, gi, pi,
                 existing_db_id, pdf_content, analyze_locals, data, database_id,
                 rows_before, query_ok, search_raised, resolved,
                 prev_fetch_failed, uploaded_earlier, complete_at_start>>

\* lines 403-404: upload_transactions_to_notion reports its counts and
\* returns
upload_return ==
  /\ pc = "upload_transactions_to_notion"
  /\ ri > Len(data)
  /\ pc' = IF entry = "main" THEN "mark_pdf_as_processed" ELSE "returned"
  /\ UNCHANGED <<service, run, entry, environ, pdf_entries, gi, pi, existing_db_id,
                 pdf_content, analyze_locals, upload_locals, hist, writes,
                 query_ok, search_raised, resolved, prev_fetch_failed,
                 uploaded_earlier, complete_at_start>>

\* lines 306-324 with the checkbox of line 316 inverted instead of set
MarkToggles ==
  /\ pc = "mark_pdf_as_processed"
  /\ writes' = writes \cup {"page_update"}
  /\ \E updateOk \in WriteOutcomes(main_properties, {"Processed"}) :
       IF updateOk
       THEN /\ pages' = [pages EXCEPT ![CurPdf.page_id].processed =
                           IF @ = "true" THEN "false" ELSE "true"]
            /\ hist' = Note(CurPdf.pdf_file, "marked")
       ELSE /\ hist' = Note(CurPdf.pdf_file, "mark_failed")
            /\ UNCHANGED pages
  /\ NextPdf
  /\ data' = <<>>
  /\ database_id' = NoDb
  /\ ri' = 0
  /\ uploaded_count' = 0
  /\ skipped_count' = 0
  /\ rows_before' = 0
  /\ UNCHANGED <<main_properties, dbs, run, entry, environ, pdf_entries,
                 analyze_locals, query_ok, resolved, prev_fetch_failed,
                 uploaded_earlier, complete_at_start>>

\* lines 306-324 and 489: mark_pdf_as_processed(page_id) sets the Processed
\* checkbox of the page, unless the update raises; then the next PDF
mark_pdf_as_processed ==
  /\ pc = "mark_pdf_as_processed"
  /\ writes' = writes \cup {"page_update"}
  /\ \E updateOk \in WriteOutcomes(main_properties, {"Processed"}) :
       IF updateOk
       THEN /\ pages' = [pages EXCEPT ![CurPdf.page_id].processed = "true"]
            /\ hist' = Note(CurPdf.pdf_file, "marked")
       ELSE /\ hist' = Note(CurPdf.pdf_file, "mark_failed")
            /\ UNCHANGED pages
  /\ NextPdf
  /\ data' = <<>>
  /\ database_id' = NoDb
  /\ ri' = 0
  /\ uploaded_count' = 0
  /\ skipped_count' = 0
  /\ rows_before' = 0
  /\ UNCHANGED <<main_properties, dbs, run, entry, environ, pdf_entries,
                 analyze_locals, query_ok, resolved, prev_fetch_failed,
                 uploaded_earlier, complete_at_start>>

\* line 500: process_pdfs has returned and main() returns
main_return ==
  /\ pc = "done"
  /\ pc' = "idle"
  /\ pdf_entries' = <<>>
  /\ UNCHANGED <<service, run, entry, environ, gi, pi, existing_db_id, pdf_content,
                 analyze_locals, upload_locals, hist, writes, query_ok,
                 search_raised, resolved, prev_fetch_failed, uploaded_earlier,
                 complete_at_start>>

Next ==
  \/ main
  \/ ensure_database_properties
  \/ process_pdfs
  \/ check_existing_database
  \/ create_new_database
  \/ read_pdf
  \/ analyze_pdf_content
  \/ filter
  \/ upload_transactions_to_notion
  \/ upload_return
  \/ mark_pdf_as_processed
  \/ main_return

Spec == Init /\ [][Next]_vars

(* ------------------- runs that are carried through -------------------- *)
\* number of runs of main() in the behaviours checked for termination
MaxLiveRuns == 1

NextLive ==
  \/ main /\ run < MaxLiveRuns
  \/ ensure_database_properties
  \/ process_pdfs
  \/ check_existing_database
  \/ create_new_database
  \/ read_pdf
  \/ analyze_pdf_content
  \/ filter
  \/ upload_transactions_to_notion
  \/ upload_return
  \/ mark_pdf_as_processed
  \/ main_return

\* the program is sequential and every call of a collaborator returns or
\* raises: a statement that can be executed is executed
FairSpec == Init /\ [][NextLive]_vars /\ WF_vars(NextLive)

(* --------------- analyze_pdf_content called on any text --------------- *)
InitAnalyze ==
  /\ pages = <<>>
  /\ main_properties = FormProperties
  /\ dbs = <<>>
  /\ run = 0
  /\ entry = "analyze_pdf_content"
  /\ environ = Secrets
  /\ pc = "analyze_pdf_content"
  /\ pdf_entries = <<>>
  /\ gi = 0
  /\ pi = 0
  /\ existing_db_id = NoDb
  /\ pdf_content \in {Statement, EmptyText, ErrorCodes}
  /\ attempt = 1
  /\ requests = 0
  /\ assistant_message = NoAnswer
  /\ extracted_data = <<>>
  /\ data = <<>>
  /\ database_id = NoDb
  /\ ri = 0
  /\ uploaded_count = 0
  /\ skipped_count = 0
  /\ rows_before = 0
  /\ InitHistory

NextAnalyze == analyze_pdf_content

SpecAnalyze == InitAnalyze /\ [][NextAnalyze]_vars

(* ------------------------- the module is loaded ----------------------- *)
\* what os.getenv gives for the two keys: None when the variable is not
\* set, else its value, which may be empty
Environs ==
  [NOTION_API_KEY : {None, "", "secret"}, OPENAI_API_KEY : {None, "", "secret"}]

\* lines 12-25: the notion client is built with whatever NOTION_API_KEY
\* holds, and the module raises ValueError when OPENAI_API_KEY is not set
\* or empty; else main() can be called
startup ==
  /\ pc = "startup"
  /\ pc' = IF ~Truthy(environ["OPENAI_API_KEY"]) THEN "raised" ELSE "idle"
  /\ UNCHANGED <<service, run, entry, environ, pdf_entries, gi, pi,
                 existing_db_id, pdf_content, analyze_locals, upload_locals,
                 hist, writes, query_ok, search_raised, resolved,
                 prev_fetch_failed, uploaded_earlier, complete_at_start>>

InitStartup ==
  /\ \E w \in Worlds :
       /\ pages = w.pages
       /\ main_properties = w.main_properties
       /\ dbs = w.dbs
  /\ run = 0
  /\ entry = "main"
  /\ environ \in Environs
  /\ pc = "startup"
  /\ InitLocals
  /\ InitHistory

NextStartup ==
  \/ startup
  \/ NextLive

SpecStartup == InitStartup /\ [][NextStartup]_vars

(* ------------ runs in which every collaborator call succeeds ---------- *)
\* a row of a completion answer that passes the filter of process_pdfs and
\* every check of upload_transactions_to_notion
FullyValid(row) ==
  AllValues(cleaned_item(row)) /\ Validate(cleaned_item(row)).ok

\* the step taken is one in which the collaborator call it makes does not
\* raise, and the completion answer is a CSV under the expected header
\* with at least one row, all of them valid
Succeeds ==
  /\ pc = "ensure_database_properties" =>
       DOMAIN required_properties \subseteq DOMAIN main_properties'
  /\ pc = "process_pdfs" => query_ok'
  /\ pc = "check_existing_database" =>
       /\ ~search_raised'
       /\ Matches(CurGroup.respondent, TARGET_PAGE_ID) # {} => pc' = "read_pdf"
  /\ pc = "create_new_database" => dbs' # dbs
  /\ pc = "read_pdf" => "read" \in hist'[CurPdf.pdf_file]
  /\ pc = "analyze_pdf_content" =>
       /\ pc' = "filter"
       /\ extracted_data' # <<>>
       /\ \A i \in DOMAIN extracted_data' : FullyValid(extracted_data'[i])
  /\ (pc = "upload_transactions_to_notion" /\ ri <= Len(data)) =>
       (Validate(data[ri]).ok => uploaded_count' = uploaded_count + 1)
  /\ pc = "mark_pdf_as_processed" => "marked" \in hist'[CurPdf.pdf_file]

\* workspaces with one unprocessed record that has one PDF: no database
\* for the respondent yet, one from an earlier run, one that was made by
\* hand without the Processed property, and a PDF without text
HappyWorlds ==
  { [pages |-> <<Page(Jane, TRUE, <<Statement>>, "false")>>,
     main_properties |-> Merge(FormProperties, required_properties),
     dbs |-> <<>>],
    [pages |-> <<Page(Jane, TRUE, <<Statement>>, "false")>>,
     main_properties |-> Merge(FormProperties, required_properties),
     dbs |-> <<NewDatabase(Jane)>>],
    [pages |-> <<Page(Jane, TRUE, <<Statement>>, "absent")>>,
     main_properties |-> FormProperties,
     dbs |-> <<OldDatabase(Jane)>>],
    [pages |-> <<Page(Jane, TRUE, <<EmptyText>>, "false")>>,
     main_properties |-> Merge(FormProperties, "Processed" :> "checkbox"),
     dbs |-> <<>>] }

InitHappy ==
  /\ \E w \in Worlds \cup HappyWorlds :
       /\ pages = w.pages
       /\ main_properties = w.main_properties
       /\ dbs = w.dbs
  /\ run = 0
  /\ entry = "main"
  /\ environ = Secrets
  /\ pc = "idle"
  /\ InitLocals
  /\ InitHistory

NextHappy ==
  \/ main /\ Succeeds
  \/ ensure_database_properties /\ Succeeds
  \/ process_pdfs /\ Succeeds
  \/ check_existing_database /\ Succeeds
  \/ create_new_database /\ Succeeds
  \/ read_pdf /\ Succeeds
  \/ analyze_pdf_content /\ Succeeds
  \/ filter /\ Succeeds
  \/ upload_transactions_to_notion /\ Succeeds
  \/ upload_return /\ Succeeds
  \/ mark_pdf_as_processed /\ Succeeds
  \/ main_return /\ Succeeds

SpecHappy == InitHappy /\ [][NextHappy]_vars

(* ------- upload_transactions_to_notion called on any list of rows ------ *)
\* longest list of rows passed to upload_transactions_to_notion
MaxRows == 2

OverflowRow == <<"99999999999", "Milk", "100.00", "Groceries">>
BadDateAndPriceRow == <<"yesterday", "Milk", "abc", "Groceries">>

\* rows as dictionaries: the CSV rows above under the expected header, and
\* a dictionary without the "Transaction Date" key
UploadRows ==
  { DictRow(expected_headers, cells) :
      cells \in {GoodRow, GoodRow2, BlankNameRow, BadDateRow, BadPriceRow,
                 NoPriceRow, ShortRow, OverflowRow, BadDateAndPriceRow} }
  \cup { [k \in {"Product Name", "Price", "Category"} |->
            DictRow(expected_headers, GoodRow)[k]] }

RowLists == UNION {[1..n -> UploadRows] : n \in 0..MaxRows}

InitUpload ==
  /\ pages = <<>>
  /\ main_properties = FormProperties
  /\ dbs = <<NewDatabase(Jane)>>
  /\ run = 0
  /\ entry = "upload_transactions_to_notion"
  /\ environ = Secrets
  /\ pc = "upload_transactions_to_notion"
  /\ pdf_entries = <<>>
  /\ gi = 0
  /\ pi = 0
  /\ existing_db_id = NoDb
  /\ pdf_content = <<>>
  /\ attempt = 0
  /\ requests = 0
  /\ assistant_message = NoAnswer
  /\ extracted_data = <<>>
  /\ data \in RowLists
  /\ database_id = 1
  /\ ri = 1
  /\ uploaded_count = 0
  /\ skipped_count = 0
  /\ rows_before = 0
  /\ InitHistory

NextUpload ==
  \/ upload_transactions_to_notion
  \/ upload_return

SpecUpload == InitUpload /\ [][NextUpload]_vars

(* ----------------------------- properties ----------------------------- *)
RunEnded == entry = "main" /\ pc = "done"

\* the PDF's source record is Processed
Processed(pdf) == pages[pdf[1]].processed = "true"

MarkIssued(pdf) == "marked" \in hist[pdf] \/ "mark_failed" \in hist[pdf]

RequiredNames == DOMAIN required_properties

C2_FailedFetchIsRetried ==
  /\ \A pdf \in AllPdfs :
       "fetch_failed" \in hist[pdf] =>
         /\ "requested" \notin hist[pdf]
         /\ "row_created" \notin hist[pdf]
         /\ RunEnded => ~Processed(pdf)
  /\ (query_ok /\ pc \notin {"ensure_database_properties", "process_pdfs"}) =>
       \A pdf \in prev_fetch_failed : "scanned" \in hist[pdf]

C4_UploadedInOneRun ==
  \A pdf \in AllPdfs : ~("row_created" \in hist[pdf] /\ pdf \in uploaded_earlier)

\* C5: a respondent name is always resolved to the same database id, and
\* the target page never holds two databases with that title.
C5_OneDatabasePerRespondent ==
  \A n \in RespondentNames :
    /\ Cardinality(resolved[n]) <= 1
    /\ Cardinality(Matches(n, TARGET_PAGE_ID)) <= 1

\* C6: after a failed search the group is aborted: no database is created
\* or used for it and none of its PDFs is fetched, uploaded or marked; and
\* no PDF is worked on without a database.
C6_FailedResolutionAbortsGroup ==
  /\ search_raised =>
       /\ existing_db_id = NoDb
       /\ \A i \in DOMAIN CurGroup.pdfs :
            hist[CurGroup.pdfs[i].pdf_file] \subseteq {"scanned"}
  /\ pc \in {"read_pdf", "analyze_pdf_content", "filter",
             "upload_transactions_to_notion", "mark_pdf_as_processed"} =>
       (entry = "main" => existing_db_id # NoDb)

\* C7: a database in which the run created a row, and the source database
\* when the run set Processed on one of its records, has the five required
\* properties.
C7_SchemaBeforeWrite ==
  [][/\ \A i \in DOMAIN dbs :
          Len(dbs'[i].rows) > Len(dbs[i].rows) =>
            RequiredNames \subseteq DOMAIN dbs[i].properties
     /\ pages' # pages => RequiredNames \subseteq DOMAIN main_properties]_vars

C9_CountsAddUp ==
  pc = "returned" =>
    /\ uploaded_count + skipped_count = Len(data)
    /\ uploaded_count = Len(dbs[database_id].rows) - rows_before

\* a call with two valid rows has returned after one page creation failed
C9_Witness ==
  /\ pc = "returned"
  /\ Len(data) = 2
  /\ \A i \in DOMAIN data : Validate(data[i]).ok
  /\ uploaded_count = 1
  /\ skipped_count = 1

\* C10: an attempt of analyze_pdf_content either is followed by the next
\* attempt, which happens only before the last one, or returns to
\* process_pdfs; rows are returned only as parsed from an answer whose
\* header is the expected one, and a failed last attempt returns the empty
\* list.
C10_AnalyzeNeverRaises ==
  [][pc = "analyze_pdf_content" =>
       /\ pc' \in {"analyze_pdf_content", "filter"}
       /\ pc' = "analyze_pdf_content" => attempt < retries /\ attempt' = attempt + 1
       /\ attempt = retries => pc' = "filter"
       /\ (pc' = "filter" /\ extracted_data' # <<>>) =>
            \E msg \in Messages :
              /\ fieldnames(csv_content(msg)) = expected_headers
              /\ extracted_data' = DictReader(csv_content(msg))
       /\ "exhausted" \in hist'[CurPdf.pdf_file] =>
            (pc' = "filter" /\ extracted_data' = <<>>)]_vars

\* every attempt on a PDF has failed and analyze_pdf_content has returned
\* the empty list
C10_Witness ==
  /\ pc = "filter"
  /\ "exhausted" \in hist[CurPdf.pdf_file]
  /\ extracted_data = <<>>

\* C11: every attempt of analyze_pdf_content issues one completion request
\* and nothing else issues one; a call issues at most 3 requests, exactly 3
\* when every attempt failed, and none after the attempt that passed the
\* header check, with which the call returns; a run calls
\* analyze_pdf_content only for a PDF it scanned and has not worked on
\* yet, hence issues at most 3 requests for each scanned PDF; every call
\* of analyze_pdf_content returns and every run ends.
C11_BoundedRequests ==
  /\ [][/\ requests' <= 3
        /\ pc = "analyze_pdf_content" =>
             /\ requests' = requests + 1
             /\ requests' = attempt
             /\ "exhausted" \in hist'[CurPdf.pdf_file] => requests' = 3
             /\ pc' = "analyze_pdf_content" => requests' < 3
        /\ pc # "analyze_pdf_content" => requests' \in {requests, 0}
        /\ pc = "read_pdf" => hist[CurPdf.pdf_file] = {"scanned"}]_vars
  /\ (pc = "analyze_pdf_content") ~> (pc # "analyze_pdf_content")
  /\ (pc # "idle") ~> (pc = "idle")

\* analyze_pdf_content has returned rows from its second attempt, after two
\* requests
C11_Witness ==
  /\ pc = "filter"
  /\ requests = 2
  /\ extracted_data # <<>>
  /\ "exhausted" \notin hist[CurPdf.pdf_file]

\* C12: when every collaborator call succeeds and the completion answer is
\* a well-formed CSV of n >= 1 valid rows, the work on the only
\* unprocessed PDF of a run ends with the mark: the source record is
\* Processed, one database under the target page carries the respondent's
\* name, it is the one that was used (created in this run only when there
\* was none) and has the five required properties, and n rows were
\* created in it, with uploaded_count = n and skipped_count = 0.
C12_EndToEnd ==
  [][(Len(pdf_entries) = 1 /\ pc # "done" /\ pc' = "done") =>
       LET e == pdf_entries[1]
           db == existing_db_id
       IN /\ pc = "mark_pdf_as_processed"
          /\ pages'[e.page_id].processed = "true"
          /\ Matches(e.respondent_name, TARGET_PAGE_ID) = {db}
          /\ "database_create" \in writes => db = Len(dbs)
          /\ \A n \in DOMAIN required_properties :
               /\ n \in DOMAIN dbs[db].properties
               /\ dbs[db].properties[n] = required_properties[n]
          /\ Len(data) >= 1
          /\ uploaded_count = Len(data)
          /\ skipped_count = 0
          /\ Len(dbs[db].rows) = rows_before + Len(data)]_vars

\* the PDFs of a group that the run has tried to read
Attempted(group) ==
  {i \in DOMAIN group.pdfs :
     hist[group.pdfs[i].pdf_file] \cap {"read", "fetch_failed"} # {}}

\* C13: every run that was started ends, whatever collaborator calls fail
\* in it, and when it ends every PDF of every respondent group has been
\* tried, but for the groups whose database could be neither found nor
\* created, of which no PDF has been tried.
C13_RunsToCompletion ==
  /\ [](RunEnded =>
         \A g \in DOMAIN Groups :
           \/ Attempted(Groups[g]) = DOMAIN Groups[g].pdfs
           \/ Attempted(Groups[g]) = {} /\ "database_create" \in writes)
  /\ (pc # "idle") ~> RunEnded
  /\ RunEnded ~> (pc = "idle")

\* a run has ended in which the database of the first group could not be
\* created, and the PDF of the second group was worked on up to its mark,
\* which failed
C13_Witness ==
  /\ RunEnded
  /\ Len(Groups) = 2
  /\ Attempted(Groups[1]) = {}
  /\ "mark_failed" \in hist[Groups[2].pdfs[1].pdf_file]

\* C14: no step removes or adds a source record or changes the files or
\* the respondent of one; the records change only in
\* mark_pdf_as_processed, which changes only the record of the PDF at
\* hand and only by setting its Processed to true; a record that is
\* Processed stays so.
C14_OnlyProcessedIsSet ==
  [][/\ Len(pages') = Len(pages)
     /\ \A p \in DOMAIN pages :
          /\ pages'[p].respondent = pages[p].respondent
          /\ pages'[p].has_field = pages[p].has_field
          /\ pages'[p].files = pages[p].files
          /\ pages'[p].processed \in {pages[p].processed, "true"}
          /\ pages'[p] # pages[p] =>
               pc = "mark_pdf_as_processed" /\ p = CurPdf.page_id]_vars

\* both PDFs of one record have been marked, the second when the record
\* was Processed already
C14_Witness ==
  /\ RunEnded
  /\ \E p \in DOMAIN pages :
       /\ Len(pages[p].files) = 2
       /\ "marked" \in hist[<<p, 1>>]
       /\ "marked" \in hist[<<p, 2>>]
       /\ pages[p].processed = "true"

\* C15: when NOTION_API_KEY or OPENAI_API_KEY is not set, the program
\* does not get past its startup: it raises there, before main() runs,
\* and no scan or write is ever made.
C15_MissingSecretIsFatal ==
  (environ["NOTION_API_KEY"] = None \/ environ["OPENAI_API_KEY"] = None) =>
    /\ pc \in {"startup", "raised"}
    /\ run = 0
    /\ writes = {}

\* the three checks of a row as the claim words them
DateOk(row) ==
  /\ "Transaction Date" \in DOMAIN row
  /\ Truthy(row["Transaction Date"])
  /\ ParseDate(row["Transaction Date"]) \notin {"ValueError", "OverflowError"}

FieldsOk(row) ==
  \A k \in {"Product Name", "Price", "Category"} :
    k \in DOMAIN row /\ row[k] # None /\ Strip(row[k]) # ""

PriceOk(row) == ParsePrice(Strip(row["Price"])) # -1

PassesChecks(row) == DateOk(row) /\ FieldsOk(row) /\ PriceOk(row)

\* C16: a step of upload_transactions_to_notion on a row creates at most
\* one row, and one only if the Transaction Date is present and parseable,
\* Product Name, Price and Category are not empty after trimming and the
\* Price parses; it sends the create request for every row that passes
\* these checks, and counts the row as uploaded exactly when the request
\* has created it, else as skipped; the first check a row fails, in this
\* order, is the reason it is skipped; after any row the next one is
\* handled, and the call returns only after the last.
C16_RowCreatedIffValid ==
  [][pc = "upload_transactions_to_notion" =>
       IF ri <= Len(data)
       THEN LET row == data[ri]
                old == dbs[database_id].rows
                new == dbs'[database_id].rows
                why == Validate(row).why
            IN /\ pc' = pc /\ ri' = ri + 1 /\ data' = data
               /\ new = old \/ (Len(new) = Len(old) + 1 /\ SubSeq(new, 1, Len(old)) = old)
               /\ new # old => PassesChecks(row)
               /\ PassesChecks(row) => "row_create" \in writes'
               /\ ~PassesChecks(row) => writes' = writes
               /\ new # old <=> uploaded_count' = uploaded_count + 1
               /\ new = old <=> skipped_count' = skipped_count + 1
               /\ ~DateOk(row) =>
                    why \in {"missing date", "invalid date", "exception"}
               /\ (DateOk(row) /\ ~FieldsOk(row)) =>
                    why \in {"missing field", "exception"}
               /\ (DateOk(row) /\ FieldsOk(row) /\ ~PriceOk(row)) =>
                    why = "invalid price"
       ELSE pc' = "returned" /\ dbs' = dbs]_vars

\* the call has returned after a row without a Price, which was skipped,
\* and a valid row after it, which was created
C16_Witness ==
  /\ pc = "returned"
  /\ Len(data) = 2
  /\ ~FieldsOk(data[1])
  /\ Get(data[1], "Price", "") = ""
  /\ PassesChecks(data[2])
  /\ Len(dbs[database_id].rows) = 1
  /\ uploaded_count = 1
  /\ skipped_count = 1

\* the required properties a database lacks
Missing(properties) == (DOMAIN required_properties) \ (DOMAIN properties)

\* C17: ensure_database_properties sends a schema update only when a
\* required property is missing; the call leaves the schema as it was or
\* adds to it exactly the missing required properties, with their
\* required types, so that all five exist; no property the database had
\* is removed or changed, also one that has a required name and another
\* type; and whether the retrieve or the update fails or not, the run goes
\* on to process_pdfs.
C17_EnsureIsAdditive ==
  [][pc = "ensure_database_properties" =>
       /\ pc' = "process_pdfs"
       /\ "schema_update" \in writes' => Missing(main_properties) # {}
       /\ Missing(main_properties) = {} => writes' = writes
       /\ DOMAIN main_properties' \in
            {DOMAIN main_properties,
             DOMAIN main_properties \cup DOMAIN required_properties}
       /\ main_properties' # main_properties => "schema_update" \in writes'
       /\ \A n \in DOMAIN main_properties :
            main_properties'[n] = main_properties[n]
       /\ \A n \in DOMAIN main_properties' \ DOMAIN main_properties :
            n \in Missing(main_properties)
              /\ main_properties'[n] = required_properties[n]]_vars

\* the call has added four properties to a database that had a Price
\* property of type rich_text, which it has kept
C17_Witness ==
  /\ pc = "process_pdfs"
  /\ writes = {"schema_update"}
  /\ DOMAIN required_properties \subseteq DOMAIN main_properties
  /\ main_properties["Price"] = "rich_text"

\* the statements of process_pdfs that work on a PDF
PdfSteps ==
  {"read_pdf", "analyze_pdf_content", "filter",
   "upload_transactions_to_notion", "mark_pdf_as_processed"}

MarkTags == {"marked", "mark_failed"}

\* C18: a PDF is read only when the database of its group has been found
\* or created and nothing was done for the PDF yet; completion is
\* requested only for a PDF whose text was fetched; rows are created only
\* after the extraction, in the database the group was resolved to, and
\* before the mark; the mark comes after the last row; every step works
\* on the PDF at hand only, and the PDF at hand changes only to the next
\* one of the group or the first of the next group.
C18_OneAtATimeInOrder ==
  [][/\ \A pdf \in AllPdfs :
          hist'[pdf] # hist[pdf] =>
            pc \in {"idle", "process_pdfs"} \/ pdf = CurPdf.pdf_file
     /\ pc = "read_pdf" =>
          /\ existing_db_id # NoDb
          /\ existing_db_id \in resolved[CurGroup.respondent]
          /\ hist[CurPdf.pdf_file] = {"scanned"}
     /\ pc = "analyze_pdf_content" =>
          /\ {"read", "fetched"} \subseteq hist[CurPdf.pdf_file]
          /\ hist[CurPdf.pdf_file] \subseteq
               {"scanned", "read", "fetched", "requested"}
     /\ pc = "filter" =>
          /\ {"fetched", "requested"} \subseteq hist[CurPdf.pdf_file]
          /\ hist[CurPdf.pdf_file] \cap
               ({"extracted", "empty", "row_created"} \cup MarkTags) = {}
     /\ pc = "upload_transactions_to_notion" =>
          /\ {"fetched", "requested", "extracted"} \subseteq hist[CurPdf.pdf_file]
          /\ hist[CurPdf.pdf_file] \cap MarkTags = {}
          /\ database_id = existing_db_id
          /\ existing_db_id \in resolved[CurGroup.respondent]
     /\ pc = "mark_pdf_as_processed" =>
          /\ {"fetched", "requested", "extracted"} \subseteq hist[CurPdf.pdf_file]
          /\ hist[CurPdf.pdf_file] \cap MarkTags = {}
          /\ hist'[CurPdf.pdf_file] \cap MarkTags # {}
          /\ data = cleaned_data(data)
          /\ data # <<>> => ri = Len(data) + 1
     /\ \A i \in DOMAIN dbs :
          dbs'[i].rows # dbs[i].rows =>
            pc = "upload_transactions_to_notion" /\ i = existing_db_id
     /\ pages' # pages => pc = "mark_pdf_as_processed"
     /\ (pc \in PdfSteps \cup {"check_existing_database", "create_new_database"}
           /\ pc' # "done") =>
          \/ gi' = gi /\ pi' = pi /\ pc' \in PdfSteps \ {"read_pdf"}
          \/ gi' = gi /\ pi' = pi /\ pc' = "create_new_database"
          \/ gi' = gi /\ pi' = pi + 1 /\ pc' = "read_pdf"
          \/ gi' = gi + 1 /\ pi' = 0 /\ pc' = "check_existing_database"]_vars

\* the second PDF of a group is being marked after its rows were created,
\* the first one having been marked before
C18_Witness ==
  /\ pc = "mark_pdf_as_processed"
  /\ pi = 2
  /\ "row_created" \in hist[CurPdf.pdf_file]
  /\ "marked" \in hist[CurGroup.pdfs[1].pdf_file]

\* the header row of the candidate CSV payload of an answer is the four
\* expected names in their order
HeaderIsExpected(msg) ==
  LET payload == NonEmptyLines(csv_content(msg))
  IN /\ payload # <<>>
     /\ Len(payload[1]) = 4
     /\ payload[1][1] = "Transaction Date"
     /\ payload[1][2] = "Product Name"
     /\ payload[1][3] = "Price"
     /\ payload[1][4] = "Category"

\* C19: an attempt of analyze_pdf_content returns the rows of the answer,
\* be there none, and makes no further attempt, exactly when the request
\* was answered and the header of the candidate CSV payload is the four
\* expected names in their order; after any other answer, or none, the
\* next attempt follows, or the empty list is returned when it was the
\* last attempt.
C19_SucceedsIffHeaderMatches ==
  [][pc = "analyze_pdf_content" =>
       IF assistant_message' # NoAnswer /\ HeaderIsExpected(assistant_message')
       THEN /\ pc' = "returned"
            /\ extracted_data' = DictReader(csv_content(assistant_message'))
            /\ Len(extracted_data') =
                 Len(NonEmptyLines(csv_content(assistant_message'))) - 1
       ELSE IF attempt < 3
            THEN pc' = "analyze_pdf_content" /\ attempt' = attempt + 1
            ELSE pc' = "returned" /\ extracted_data' = <<>>]_vars

\* the first answer had the expected header and no data row, and the call
\* has returned the empty list after one request
C19_Witness ==
  /\ entry = "analyze_pdf_content"
  /\ pc = "returned"
  /\ requests = 1
  /\ assistant_message = <<expected_headers>>
  /\ extracted_data = <<>>

\* C20: a PDF whose download and parse succeeded is never treated as a
\* failed fetch, whatever its text is: its text goes to
\* analyze_pdf_content, and by the end of the run the Processed update
\* has been issued for it.
C20_OnlyFailedReadsAreSkipped ==
  \A pdf \in AllPdfs :
    "read" \in hist[pdf] =>
      /\ "fetched" \in hist[pdf]
      /\ pc \notin {"read_pdf", "analyze_pdf_content"} =>
           "requested" \in hist[pdf]
      /\ RunEnded => MarkIssued(pdf)
====
